---- MODULE Spec2Model ----
(***************************************************************************)
(* Buyer lead intake: the buyer record lifecycle and its change history.   *)
(*                                                                         *)
(* The store (buyer rows and history rows) is shared by request handlers   *)
(* that run as interleaved processes: every `await` on the store is one    *)
(* step of a handler.  Writes made inside prisma.$transaction are staged   *)
(* in the handler's local state and reach the store at commit; a throw     *)
(* inside the callback discards them.                                      *)
(*                                                                         *)
(* BuyerSchema carries its two refinements into CreateBuyerSchema (omit)   *)
(* and UpdateBuyerSchema (partial): both are modelled as the object shape  *)
(* with the refinements applied to the parsed payload.                     *)
(***************************************************************************)
EXTENDS Integers, Sequences, FiniteSets, TLC

VARIABLES
  buyers,   \* the buyer table: id -> row
  history,  \* the buyer history table, in insertion order
  clock,    \* the time of the latest committed write
  nextId,   \* the next fresh buyer id
  log,      \* the updates that committed (for stating the properties)
  pc, req, loc,  \* each handler's position, request and local values
  resp,     \* the response the latest step returned, if it returned one
  nreq      \* the number of requests received

vars == <<buyers, history, clock, nextId, log, pc, req, loc, resp, nreq>>

store == <<buyers, history, clock, nextId, log>>

(***************************************************************************)
(* Bounds of the model.                                                    *)
(***************************************************************************)
MaxRequests == 2
MaxBuyers == 2
MaxRows == 2

Procs == {1, 2}
Users == {"u1", "u2"}
NoUser == "anon"
DemoUser == "u1"
SeedTime == 1

(***************************************************************************)
(* Optional values: None is JavaScript's undefined / the database's null.  *)
(***************************************************************************)
None == <<>>
Some(v) == <<v>>

(***************************************************************************)
(* lib/validation: the enums and the field rules.                          *)
(***************************************************************************)
CitySchema == {"CHANDIGARH", "MOHALI", "ZIRAKPUR", "PANCHKULA", "OTHER"}
PropertyTypeSchema == {"APARTMENT", "VILLA", "PLOT", "OFFICE", "RETAIL"}
BhkSchema == {"STUDIO", "ONE", "TWO", "THREE", "FOUR"}
PurposeSchema == {"BUY", "RENT"}
TimelineSchema == {"ZERO_TO_THREE_MONTHS", "THREE_TO_SIX_MONTHS", "MORE_THAN_SIX_MONTHS", "EXPLORING"}
SourceSchema == {"WEBSITE", "REFERRAL", "WALK_IN", "CALL", "OTHER"}
StatusSchema == {"NEW", "QUALIFIED", "CONTACTED", "VISITED", "NEGOTIATION", "CONVERTED", "DROPPED"}

MinNameLen == 2
MaxNameLen == 80
MinPhoneLen == 10
MaxPhoneLen == 15
MaxNotesLen == 1000

\* The texts z.string().email() accepts, among the texts the model sends.
ValidEmails == {"a@x.io", "b@x.io"}

BuyerKeys == {"fullName", "email", "phone", "city", "propertyType", "bhk", "purpose",
              "budgetMin", "budgetMax", "timeline", "source", "status", "notes", "tags"}

RequiredKeys == {"fullName", "phone", "city", "propertyType", "purpose", "timeline", "source"}

\* One field of BuyerSchema's object shape.
FieldValid(k, v) ==
  CASE k = "fullName" -> Len(v) >= MinNameLen /\ Len(v) <= MaxNameLen
    [] k = "email" -> v = "" \/ v \in ValidEmails
    [] k = "phone" -> Len(v) >= MinPhoneLen /\ Len(v) <= MaxPhoneLen
    [] k = "city" -> v \in CitySchema
    [] k = "propertyType" -> v \in PropertyTypeSchema
    [] k = "bhk" -> v \in BhkSchema
    [] k = "purpose" -> v \in PurposeSchema
    [] k = "budgetMin" -> v \in Int /\ v >= 0
    [] k = "budgetMax" -> v \in Int /\ v >= 0
    [] k = "timeline" -> v \in TimelineSchema
    [] k = "source" -> v \in SourceSchema
    [] k = "status" -> v \in StatusSchema
    [] k = "notes" -> Len(v) <= MaxNotesLen
    [] k = "tags" -> TRUE
    [] OTHER -> FALSE

\* The message of the rule of BuyerSchema a present value of key k breaks.
FieldMessage(k, v) ==
  CASE k = "fullName" -> IF Len(v) < MinNameLen THEN "Name must be at least 2 characters"
                         ELSE "Name must be at most 80 characters"
    [] k = "email" -> "Invalid input"
    [] k = "phone" -> IF Len(v) < MinPhoneLen THEN "Phone must be at least 10 digits"
                      ELSE "Phone must be at most 15 digits"
    [] k \in {"budgetMin", "budgetMax"} -> "Budget must be positive"
    [] k = "notes" -> "Notes must be at most 1000 characters"
    [] OTHER -> "Invalid enum value"

Issue(path, message) == [path |-> path, message |-> message]

\* The issues z.object(...) raises on a body: one for every required key that
\* is absent and one for every present key whose value breaks its rule.
ShapeIssues(keys, required, body) ==
  {Issue(k, "Required") : k \in required \ DOMAIN body}
  \cup {Issue(k, FieldMessage(k, body[k])) :
          k \in {j \in keys \cap DOMAIN body : ~FieldValid(j, body[j])}}

\* z.object(...) on a body: every required key present, every present key valid.
ShapeValid(keys, required, body) ==
  /\ \A k \in required : k \in DOMAIN body
  /\ \A k \in keys \cap DOMAIN body : FieldValid(k, body[k])

\* Variant: unknown keys pass through.
ShapePassthrough(keys, defaults, body) ==
  [k \in DOMAIN body \cup DOMAIN defaults |->
     IF k \in DOMAIN body THEN body[k] ELSE defaults[k]]

\* z.object(...) output: unknown keys are stripped, defaults fill absent keys.
ShapeOutput(keys, defaults, body) ==
  [k \in (keys \cap DOMAIN body) \cup DOMAIN defaults |->
     IF k \in DOMAIN body THEN body[k] ELSE defaults[k]]

BhkNotRequired(data) == TRUE

\* First refinement: bhk is required for APARTMENT and VILLA.
BhkRefine(data) ==
  ~ ( /\ "propertyType" \in DOMAIN data
      /\ data["propertyType"] \in {"APARTMENT", "VILLA"}
      /\ "bhk" \notin DOMAIN data )

\* Second refinement: `data.budgetMin && data.budgetMax && max < min` fails it;
\* a budget of 0 is falsy and skips the comparison.
BudgetRefine(data) ==
  ~ ( /\ "budgetMin" \in DOMAIN data /\ data["budgetMin"] # 0
      /\ "budgetMax" \in DOMAIN data /\ data["budgetMax"] # 0
      /\ data["budgetMax"] < data["budgetMin"] )

\* The issues of the refinements, which run on the output of a shape that
\* raised no issue, each whatever the other returns.
RefineIssues(data) ==
  {Issue("bhk", "BHK is required for Apartment and Villa properties") :
     x \in {y \in {1} : ~BhkRefine(data)}}
  \cup {Issue("budgetMax", "Maximum budget must be greater than or equal to minimum budget") :
          x \in {y \in {1} : ~BudgetRefine(data)}}

\* The issues of the ZodError that parsing body throws; none when it parses.
BuyerIssues(keys, required, defaults, body) ==
  IF ShapeIssues(keys, required, body) # {} THEN ShapeIssues(keys, required, body)
  ELSE RefineIssues(ShapeOutput(keys, defaults, body))

TagsDefault == [k \in {"tags"} |-> ""]
NoDefaults == [k \in {} |-> ""]

CreateKeys == BuyerKeys \ {"status"}

\* CreateBuyerSchema.parse(body): the parsed data, or None when it throws.
CreateBuyerSchema(body) ==
  LET data == ShapeOutput(CreateKeys, TagsDefault, body)
  IN  IF ShapeValid(CreateKeys, RequiredKeys, body) /\ BhkRefine(data) /\ BudgetRefine(data)
      THEN Some(data) ELSE None

\* UpdateBuyerSchema.parse(body): every key optional; an absent key stays absent.
UpdateBuyerSchema(body) ==
  LET data == ShapeOutput(BuyerKeys, NoDefaults, body)
  IN  IF ShapeValid(BuyerKeys, {}, body) /\ BhkRefine(data) /\ BudgetRefine(data)
      THEN Some(data) ELSE None

\* The handlers' catch: a ZodError's message is the JSON of its issues, which
\* holds the word "validation" only for a string-format issue (the email check).
ParseErrorStatus(keys, body) ==
  IF "email" \in keys \cap DOMAIN body /\ ~FieldValid("email", body["email"])
  THEN 400 ELSE 500

(***************************************************************************)
(* The store.                                                              *)
(***************************************************************************)
Exists(id) == id \in DOMAIN buyers

\* Column defaults of the buyer table.
DbDefaults == [k \in {"status"} |-> "NEW"]

\* Variant: the row is written without the data's tags.
NewRowNoTags(data, owner, now) ==
  [fields |-> [k \in DOMAIN data \cup DOMAIN DbDefaults |->
                 IF k = "tags" THEN "" ELSE IF k \in DOMAIN data THEN data[k] ELSE DbDefaults[k]],
   ownerId |-> owner, createdAt |-> now, updatedAt |-> now]

\* The row prisma.buyer.create writes.
NewRow(data, owner, now) ==
  [fields |-> [k \in DOMAIN data \cup DOMAIN DbDefaults |->
                 IF k \in DOMAIN data THEN data[k] ELSE DbDefaults[k]],
   ownerId |-> owner, createdAt |-> now, updatedAt |-> now]

\* The columns of a row that are not fields of the form.
OwnColumns == {"id", "ownerId", "createdAt", "updatedAt"}

\* The row prisma.buyer.update leaves: every column the data names is set,
\* updatedAt moves.
UpdatedRow(row, data, now) ==
  [fields |-> [k \in (DOMAIN row.fields \cup DOMAIN data) \ OwnColumns |->
                 IF k \in DOMAIN data THEN data[k] ELSE row.fields[k]],
   ownerId |-> IF "ownerId" \in DOMAIN data THEN data["ownerId"] ELSE row.ownerId,
   createdAt |-> IF "createdAt" \in DOMAIN data THEN data["createdAt"] ELSE row.createdAt,
   updatedAt |-> now]

HistoryEntry(id, user, now, action, fields) ==
  [buyerId |-> id, changedBy |-> user, changedAt |-> now,
   diff |-> [action |-> action, fields |-> fields]]

HistoryOf(h, id) == SelectSeq(h, LAMBDA e : e.buyerId = id)

NoCascade(h, id) == h

\* Deleting a buyer removes its history rows with it.
CascadeDelete(h, id) == SelectSeq(h, LAMBDA e : e.buyerId # id)

(***************************************************************************)
(* Requests and the handlers' local state.                                 *)
(***************************************************************************)
NoBody == [k \in {} |-> ""]
NoReq == [kind |-> "none", user |-> NoUser, id |-> 0, body |-> NoBody, file |-> None]
NoLoc == [user |-> NoUser, id |-> 0, body |-> NoBody, expected |-> None, seen |-> 0,
          data |-> NoBody,
          old |-> None, diff |-> NoBody, rows |-> <<>>]
\* (body, expected and seen record what the request carried and what the handler
\* saw at its check; the handlers do not read them again.)
NoResp == [to |-> 0, at |-> "none", status |-> 0, body |-> None]

Status(s) == [status |-> s, body |-> None]

\* Variant: every request passes for an authenticated one.
AnyoneAuthenticated(r) == TRUE

\* requireAuth: the user of the request, or a throw.
Authenticated(r) == r.user \in Users

\* The handler returns its response from the position it is at.
Finish(p, r) ==
  /\ pc' = [pc EXCEPT ![p] = "idle"]
  /\ req' = [req EXCEPT ![p] = NoReq]
  /\ loc' = [loc EXCEPT ![p] = NoLoc]
  /\ resp' = [to |-> p, at |-> pc[p], status |-> r.status, body |-> r.body]

\* The handler goes on to its next await; the request has been read.
Goto(p, label, l) ==
  /\ pc' = [pc EXCEPT ![p] = label]
  /\ loc' = [loc EXCEPT ![p] = l]
  /\ req' = [req EXCEPT ![p] = NoReq]
  /\ resp' = NoResp

\* Variant: the writes are made outside a transaction and stay.
NoRollback(before, staged) == staged

\* A throw inside the callback of prisma.$transaction discards the writes made
\* through tx: the table is as before them.
Rollback(before, staged) == before

\* A row another handler's open transaction has written is locked until it ends.
LockedByOther(p, id) ==
  \E q \in Procs \ {p} : pc[q] = "put_hist" /\ loc[q].id = id

(***************************************************************************)
(* PUT /api/buyers/[id]                                                    *)
(***************************************************************************)
\* `const { updatedAt, ...updateData } = UpdateBuyerSchema.parse(body)`.
ExpectedVersion(parsed) ==
  IF "updatedAt" \in DOMAIN parsed THEN Some(parsed["updatedAt"]) ELSE None

UpdateData(parsed) == [k \in DOMAIN parsed \ {"updatedAt"} |-> parsed[k]]

\* Variant: no ownership check.
AnyoneOwns(row, user) == FALSE

\* `existingBuyer.ownerId !== user.id`
NotOwner(row, user) == row.ownerId # user

\* Variant: a request without a version conflicts too.
VersionRequired(updatedAt, row) == updatedAt = None \/ updatedAt[1] # row.updatedAt

\* `updatedAt && new Date(updatedAt).getTime() !== existingBuyer.updatedAt.getTime()`
VersionConflict(updatedAt, row) == updatedAt # None /\ updatedAt[1] # row.updatedAt

\* oldBuyer[key]: the column's value, null when the column holds none.
Column(row, k) == IF k \in DOMAIN row.fields THEN Some(row.fields[k]) ELSE None

\* Variant: every key of updateData is reported as changed.
DiffOfAllKeys(old, data) ==
  IF old = None THEN NoBody
  ELSE [k \in DOMAIN data |-> [old |-> Column(old[1], k), new |-> data[k]]]

\* The diff of the update: the keys of updateData whose value !== oldBuyer's.
Diff(old, data) ==
  IF old = None THEN NoBody
  ELSE [k \in {j \in DOMAIN data : Column(old[1], j) # Some(data[j])} |->
          [old |-> Column(old[1], k), new |-> data[k]]]

\* The handler up to its first return or its second read of the store.
PutCheck(p) ==
  /\ pc[p] = "put"
  /\ LET r == req[p]
         parsed == UpdateBuyerSchema(r.body)
     IN  IF ~Authenticated(r) THEN Finish(p, Status(500))
         ELSE IF parsed = None THEN Finish(p, Status(ParseErrorStatus(BuyerKeys, r.body)))
         ELSE IF ~Exists(r.id) THEN Finish(p, Status(404))
         ELSE IF NotOwner(buyers[r.id], r.user) THEN Finish(p, Status(403))
         ELSE IF VersionConflict(ExpectedVersion(parsed[1]), buyers[r.id])
              THEN Finish(p, Status(409))
         ELSE Goto(p, "put_old", [loc[p] EXCEPT !.user = r.user, !.id = r.id,
                                                !.expected = ExpectedVersion(r.body),
                                                !.seen = buyers[r.id].updatedAt,
                                                !.data = UpdateData(parsed[1])])
  /\ UNCHANGED <<store, nreq>>

\* `const oldBuyer = await prisma.buyer.findUnique(...)`
PutReadOld(p) ==
  /\ pc[p] = "put_old"
  /\ Goto(p, "put_tx",
          [loc[p] EXCEPT !.old = IF Exists(loc[p].id) THEN Some(buyers[loc[p].id]) ELSE None])
  /\ UNCHANGED <<store, nreq>>

\* The table after tx.buyer.update.
BuyersUpdated(b, id, data, now) == [b EXCEPT ![id] = UpdatedRow(b[id], data, now)]

\* Variant: the history entry is written over the last entry.
HistoryRewritten(h, id, user, now, diff) ==
  IF DOMAIN diff # {} /\ h # <<>>
  THEN [h EXCEPT ![Len(h)] = HistoryEntry(id, user, now, "updated", diff)]
  ELSE h

\* Variant: the history entry is written whatever the diff.
HistoryAlways(h, id, user, now, diff) ==
  Append(h, HistoryEntry(id, user, now, "updated", diff))

\* `if (Object.keys(diff).length > 0) await tx.buyerHistory.create(...)`
HistoryUpdated(h, id, user, now, diff) ==
  IF DOMAIN diff # {} THEN Append(h, HistoryEntry(id, user, now, "updated", diff)) ELSE h

\* The store after the update's transaction commits.
CommitUpdate(p, id, data, diff) ==
  /\ clock' = clock + 1
  /\ buyers' = BuyersUpdated(buyers, id, data, clock + 1)
  /\ history' = HistoryUpdated(history, id, loc[p].user, clock + 1, diff)
  /\ log' = log \cup {[id |-> id, at |-> clock + 1, expected |-> loc[p].expected,
                        seen |-> loc[p].seen, data |-> data, diff |-> diff]}
  /\ UNCHANGED nextId

\* The store after the update's transaction throws at the history write.
AbortUpdate(p, id, data) ==
  /\ buyers' = Rollback(buyers, BuyersUpdated(buyers, id, data, clock + 1))
  /\ UNCHANGED <<history, clock, nextId, log>>

\* tx.buyer.update, and the diff computed from the snapshot read before it.
PutTxUpdate(p) ==
  /\ pc[p] = "put_tx"
  /\ LET id == loc[p].id
         diff == Diff(loc[p].old, loc[p].data)
     IN  \/ /\ Finish(p, Status(500))
            /\ UNCHANGED store
         \/ /\ ~Exists(id)
            /\ Finish(p, Status(500))
            /\ UNCHANGED store
         \/ /\ Exists(id) /\ ~LockedByOther(p, id)
            /\ DOMAIN diff # {}
            /\ Goto(p, "put_hist", [loc[p] EXCEPT !.diff = diff])
            /\ UNCHANGED store
         \/ /\ Exists(id) /\ ~LockedByOther(p, id)
            /\ DOMAIN diff = {}
            /\ CommitUpdate(p, id, loc[p].data, diff)
            /\ Finish(p, Status(200))
  /\ UNCHANGED nreq

\* tx.buyerHistory.create, then the transaction's commit.
PutTxHistory(p) ==
  /\ pc[p] = "put_hist"
  /\ \/ /\ Finish(p, Status(500))
        /\ AbortUpdate(p, loc[p].id, loc[p].data)
     \/ /\ CommitUpdate(p, loc[p].id, loc[p].data, loc[p].diff)
        /\ Finish(p, Status(200))
  /\ UNCHANGED nreq

(***************************************************************************)
(* POST /api/buyers                                                        *)
(***************************************************************************)
\* The table after tx.buyer.create.
BuyersCreated(b, id, data, owner, now) ==
  [i \in DOMAIN b \cup {id} |-> IF i = id THEN NewRow(data, owner, now) ELSE b[i]]

\* The store after the create's transaction commits.
CommitCreate(p, data) ==
  /\ clock' = clock + 1
  /\ nextId' = nextId + 1
  /\ buyers' = BuyersCreated(buyers, nextId, data, loc[p].user, clock + 1)
  /\ history' = Append(history, HistoryEntry(nextId, loc[p].user, clock + 1, "created", data))
  /\ UNCHANGED log

\* The store after the create's transaction throws at the history write.
AbortCreate(p, data) ==
  /\ buyers' = Rollback(buyers, BuyersCreated(buyers, nextId, data, loc[p].user, clock + 1))
  /\ UNCHANGED <<history, clock, nextId, log>>

\* requireAuth, CreateBuyerSchema.parse, tx.buyer.create.
PostCreate(p) ==
  /\ pc[p] = "post"
  /\ LET r == req[p]
         parsed == CreateBuyerSchema(r.body)
     IN  IF ~Authenticated(r) THEN Finish(p, Status(500))
         ELSE IF parsed = None THEN Finish(p, Status(ParseErrorStatus(CreateKeys, r.body)))
         ELSE \/ Finish(p, Status(500))
              \/ Goto(p, "post_hist", [loc[p] EXCEPT !.user = r.user, !.body = r.body,
                                                      !.data = parsed[1]])
  /\ UNCHANGED <<store, nreq>>

\* tx.buyerHistory.create, then the transaction's commit.
PostTxHistory(p) ==
  /\ pc[p] = "post_hist"
  /\ \/ /\ Finish(p, Status(500))
        /\ AbortCreate(p, loc[p].data)
     \/ /\ CommitCreate(p, loc[p].data)
        /\ Finish(p, Status(201))
  /\ UNCHANGED nreq

(***************************************************************************)
(* DELETE /api/buyers/[id]                                                 *)
(***************************************************************************)
DelCheck(p) ==
  /\ pc[p] = "del"
  /\ LET r == req[p]
     IN  IF ~Authenticated(r) THEN Finish(p, Status(500))
         ELSE IF ~Exists(r.id) THEN Finish(p, Status(404))
         ELSE IF NotOwner(buyers[r.id], r.user) THEN Finish(p, Status(403))
         ELSE Goto(p, "del_do", [loc[p] EXCEPT !.user = r.user, !.id = r.id])
  /\ UNCHANGED <<store, nreq>>

\* prisma.buyer.delete
DelDo(p) ==
  /\ pc[p] = "del_do"
  /\ LET id == loc[p].id
     IN  \/ /\ Finish(p, Status(500))
            /\ UNCHANGED store
         \/ /\ ~Exists(id)
            /\ Finish(p, Status(500))
            /\ UNCHANGED store
         \/ /\ Exists(id) /\ ~LockedByOther(p, id)
            /\ buyers' = [i \in DOMAIN buyers \ {id} |-> buyers[i]]
            /\ history' = CascadeDelete(history, id)
            /\ log' = {e \in log : e.id # id}
            /\ UNCHANGED <<clock, nextId>>
            /\ Finish(p, Status(200))
  /\ UNCHANGED nreq

(***************************************************************************)
(* GET /api/buyers/[id]                                                    *)
(***************************************************************************)
HistoryTake == 5

Reverse(s) == [i \in 1..Len(s) |-> s[Len(s) + 1 - i]]

Take(s, n) == SubSeq(s, 1, IF Len(s) < n THEN Len(s) ELSE n)

\* findUnique with the owner and the newest HistoryTake history rows.
FindBuyer(b, h, id) ==
  IF id \in DOMAIN b
  THEN Some([buyer |-> b[id], history |-> Take(Reverse(HistoryOf(h, id)), HistoryTake)])
  ELSE None

GetById(p) ==
  /\ pc[p] = "get"
  /\ LET r == req[p]
         found == FindBuyer(buyers, history, r.id)
     IN  IF ~Authenticated(r) THEN Finish(p, Status(500))
         ELSE IF found = None THEN Finish(p, Status(404))
         ELSE Finish(p, [status |-> 200, body |-> found])
  /\ UNCHANGED <<store, nreq>>

(***************************************************************************)
(* lib/validation: the CSV schema.  A cell's text is a sequence of         *)
(* characters where the code reads its characters (the budgets).           *)
(***************************************************************************)
DigitValue(c) ==
  CASE c = "0" -> 0 [] c = "1" -> 1 [] c = "2" -> 2 [] c = "3" -> 3 [] c = "4" -> 4
    [] c = "5" -> 5 [] c = "6" -> 6 [] c = "7" -> 7 [] c = "8" -> 8 [] c = "9" -> 9
    [] OTHER -> -1

IsDigit(c) == DigitValue(c) >= 0

RECURSIVE SkipSpaces(_)
SkipSpaces(t) == IF t # <<>> /\ Head(t) = " " THEN SkipSpaces(Tail(t)) ELSE t

\* The value of the longest prefix of digits of t, continuing from acc.
RECURSIVE DigitsValue(_, _)
DigitsValue(t, acc) ==
  IF t # <<>> /\ IsDigit(Head(t)) THEN DigitsValue(Tail(t), 10 * acc + DigitValue(Head(t)))
  ELSE acc

\* JavaScript's parseInt(text): leading blanks, a sign, then the digits up to the
\* first other character; None is NaN.
ParseInt(text) ==
  LET t == SkipSpaces(text)
      signed == t # <<>> /\ Head(t) \in {"-", "+"}
      body == IF signed THEN Tail(t) ELSE t
      sign == IF signed /\ Head(t) = "-" THEN -1 ELSE 1
  IN  IF body # <<>> /\ IsDigit(Head(body)) THEN Some(sign * DigitsValue(body, 0)) ELSE None

\* The transform of budgetMin and budgetMax: '' and NaN become undefined.
BudgetTransform(text) == IF text = <<>> THEN None ELSE ParseInt(text)

CsvKeys == BuyerKeys \ {"status"}

CsvFieldValid(k, v) ==
  CASE k \in {"budgetMin", "budgetMax"} -> TRUE
    [] OTHER -> FieldValid(k, v)

\* The value CSVBuyerSchema gives a present key; None when it is undefined.
CsvValue(k, v) ==
  CASE k \in {"budgetMin", "budgetMax"} -> BudgetTransform(v)
    [] k = "email" -> IF v = "" THEN None ELSE Some(v)
    [] OTHER -> Some(v)

CsvOutput(row) ==
  LET present == {k \in CsvKeys \cap DOMAIN row : CsvValue(k, row[k]) # None}
  IN  [k \in present \cup DOMAIN TagsDefault |->
         IF k \in present THEN CsvValue(k, row[k])[1] ELSE TagsDefault[k]]

\* Third refinement: a budget that is set is a number and is not negative.
BudgetNumberRefine(data) ==
  /\ ("budgetMin" \in DOMAIN data => data["budgetMin"] >= 0)
  /\ ("budgetMax" \in DOMAIN data => data["budgetMax"] >= 0)

\* CSVBuyerSchema.parse(row): the parsed data, or None when it throws.
CSVBuyerSchema(row) ==
  LET data == CsvOutput(row)
  IN  IF /\ \A k \in RequiredKeys : k \in DOMAIN row
         /\ \A k \in CsvKeys \cap DOMAIN row : CsvFieldValid(k, row[k])
         /\ BhkRefine(data) /\ BudgetRefine(data) /\ BudgetNumberRefine(data)
      THEN Some(data) ELSE None

CsvFieldMessage(k, v) ==
  CASE k = "email" -> "Invalid email format"
    [] OTHER -> FieldMessage(k, v)

\* The issues of the ZodError that CSVBuyerSchema.parse(row) throws.
CsvIssues(row) ==
  LET shape == {Issue(k, "Required") : k \in RequiredKeys \ DOMAIN row}
               \cup {Issue(k, CsvFieldMessage(k, row[k])) :
                       k \in {j \in CsvKeys \cap DOMAIN row : ~CsvFieldValid(j, row[j])}}
      data == CsvOutput(row)
  IN  IF shape # {} THEN shape
      ELSE RefineIssues(data)
           \cup {Issue("", "Budget values must be valid positive numbers") :
                   x \in {y \in {1} : ~BudgetNumberRefine(data)}}

\* The error text of a row: `Row ${rowIndex + 1}: ` and then, for each issue,
\* its path and its message.
RowError(rowIndex, issues) == [row |-> rowIndex + 1, issues |-> issues]

NoError == [row |-> 0, issues |-> {}]

\* validateCSVRow(row, rowIndex)
validateCSVRow(row, rowIndex) ==
  LET parsed == CSVBuyerSchema(row)
  IN  IF parsed # None THEN [success |-> TRUE, data |-> parsed[1], error |-> NoError]
      ELSE [success |-> FALSE, data |-> NoBody, error |-> RowError(rowIndex, CsvIssues(row))]

(***************************************************************************)
(* csv-parser.  A line of the file is the sequence of its cells.           *)
(***************************************************************************)
\* The keys of the cells of a row when the parser holds no list of headers.
IndexKeys == <<"_0", "_1", "_2", "_3", "_4", "_5", "_6", "_7", "_8", "_9", "_10", "_11", "_12">>

\* `csv({ headers: true })`: the parser reads the first line as the headers
\* only when its headers option is not set; with an option that is set and is
\* not a list, every line, the first included, is a row, and a cell whose
\* header is undefined (`true[index]`) gets the key `_${index}`.
CsvParse(lines) ==
  [i \in 1..Len(lines) |->
     [k \in {IndexKeys[j] : j \in 1..Len(lines[i])} |->
        lines[i][CHOOSE j \in 1..Len(lines[i]) : IndexKeys[j] = k]]]

(***************************************************************************)
(* GET /api/buyers and GET /api/buyers/export                              *)
(***************************************************************************)
\* The characters of the texts the model stores in fullName, email and phone,
\* and of the texts it searches for.
Chars(text) ==
  CASE text = "Al" -> <<"A", "l">>
    [] text = "Bo" -> <<"B", "o">>
    [] text = "Cy" -> <<"C", "y">>
    [] text = "Rajesh Kumar" -> <<"R", "a", "j", "e", "s", "h", " ", "K", "u", "m", "a", "r">>
    [] text = "a@x.io" -> <<"a", "@", "x", ".", "i", "o">>
    [] text = "b@x.io" -> <<"b", "@", "x", ".", "i", "o">>
    [] text = "9876543210" -> <<"9", "8", "7", "6", "5", "4", "3", "2", "1", "0">>
    [] text = "9876543211" -> <<"9", "8", "7", "6", "5", "4", "3", "2", "1", "1">>
    [] text = "al" -> <<"a", "l">>
    [] text = "KUM" -> <<"K", "U", "M">>
    [] OTHER -> <<>>

LowerChar(c) ==
  CASE c = "A" -> "a" [] c = "B" -> "b" [] c = "C" -> "c" [] c = "K" -> "k"
    [] c = "M" -> "m" [] c = "R" -> "r" [] c = "U" -> "u" [] OTHER -> c

Lower(chars) == [i \in 1..Len(chars) |-> LowerChar(chars[i])]

\* `{ contains: search, mode: 'insensitive' }`
ContainsInsensitive(text, search) ==
  LET t == Lower(Chars(text))
      q == Lower(Chars(search))
  IN  \E i \in 0..(Len(t) - Len(q)) : SubSeq(t, i + 1, i + Len(q)) = q

FilterKeys == {"city", "propertyType", "status", "timeline"}

\* `searchParams.get(k) || ''`
Param(query, k) == IF k \in DOMAIN query THEN query[k] ELSE ""

\* The where clause of the query applied to a row.
Where(query, row) ==
  /\ Param(query, "search") # ""
     => \E k \in {"fullName", "email", "phone"} :
          /\ k \in DOMAIN row.fields
          /\ ContainsInsensitive(row.fields[k], Param(query, "search"))
  /\ \A k \in FilterKeys :
       Param(query, k) # "" => (k \in DOMAIN row.fields /\ row.fields[k] = Param(query, k))

\* `orderBy: { updatedAt: 'desc' }`: the ids in an order of their updatedAt,
\* latest first; rows of the same updatedAt come in any order.
UpdatedDesc(b, ids) ==
  {o \in [1..Cardinality(ids) -> ids] :
     /\ \A i, j \in 1..Cardinality(ids) : i # j => o[i] # o[j]
     /\ \A i, j \in 1..Cardinality(ids) : i < j => b[o[i]].updatedAt >= b[o[j]].updatedAt}

\* prisma.buyer.findMany({ where, orderBy }): the ids of the rows found.
FindMany(b, query) == UpdatedDesc(b, {i \in DOMAIN b : Where(query, b[i])})

DefaultPage == 1
DefaultLimit == 10

\* `parseInt(searchParams.get(k) || fallback)`
NumberParam(query, k, fallback) ==
  IF k \in DOMAIN query /\ query[k] # <<>> /\ ParseInt(query[k]) # None
  THEN ParseInt(query[k])[1] ELSE fallback

\* `skip, take: limit` on the rows found.
Page(found, skip, limit) ==
  IF skip >= Len(found) THEN <<>>
  ELSE SubSeq(found, skip + 1, IF skip + limit > Len(found) THEN Len(found) ELSE skip + limit)

\* GET /api/buyers
List(p) ==
  /\ pc[p] = "list"
  /\ LET r == req[p]
         page == NumberParam(r.body, "page", DefaultPage)
         limit == NumberParam(r.body, "limit", DefaultLimit)
     IN  IF ~Authenticated(r) THEN Finish(p, Status(500))
         ELSE \E found \in FindMany(buyers, r.body) :
                Finish(p, [status |-> 200,
                           body |-> Some([buyers |-> Page(found, (page - 1) * limit, limit),
                                          total |-> Len(found)])])
  /\ UNCHANGED <<store, nreq>>

\* `buyer.tags.join(',')`: the tags of a row are a string, which has no join;
\* the call throws.  None is the throw.
TagsJoin(tags) == None

\* GET /api/buyers/export: the rows found, each turned into a row of the
\* file; a throw is answered 500.
Export(p) ==
  /\ pc[p] = "export"
  /\ LET r == req[p]
     IN  IF ~Authenticated(r) THEN Finish(p, Status(500))
         ELSE \E found \in FindMany(buyers, r.body) :
                IF \E i \in 1..Len(found) : TagsJoin(buyers[found[i]].fields["tags"]) = None
                THEN Finish(p, Status(500))
                ELSE Finish(p, [status |-> 200,
                                body |-> Some([buyers |-> found, total |-> Len(found)])])
  /\ UNCHANGED <<store, nreq>>

(***************************************************************************)
(* POST /api/buyers/import                                                 *)
(***************************************************************************)
MaxFileBytes == 5 * 1024 * 1024
MaxImportRows == 200

Rejected(error) == [status |-> 400, body |-> Some([error |-> error])]

\* `rows.map((row, index) => validateCSVRow(row, index))`
ValidateAll(rows) == [i \in 1..Len(rows) |-> validateCSVRow(rows[i], i - 1)]

NoneInvalid(validationResults) == FALSE

\* `invalidRows.length > 0`
AnyInvalid(validationResults) ==
  Len(SelectSeq(validationResults, LAMBDA result : ~result.success)) > 0

\* The response to a batch with invalid rows.
RowErrors(validationResults) ==
  LET validRows == SelectSeq(validationResults, LAMBDA result : result.success)
      invalidRows == SelectSeq(validationResults, LAMBDA result : ~result.success)
  IN  [status |-> 400,
       body |-> Some([errors |-> [i \in 1..Len(invalidRows) |-> invalidRows[i].error],
                      validCount |-> Len(validRows),
                      invalidCount |-> Len(invalidRows)])]

\* The handler up to its return or to the transaction.
ImportCheck(p) ==
  /\ pc[p] = "imp"
  /\ LET r == req[p]
         file == r.file
         rows == CsvParse(file[1].lines)
         validationResults == ValidateAll(rows)
         validRows == SelectSeq(validationResults, LAMBDA result : result.success)
     IN  IF ~Authenticated(r) THEN Finish(p, Status(500))
         ELSE IF file = None THEN Finish(p, Rejected("No file provided"))
         ELSE IF ~file[1].csv THEN Finish(p, Rejected("File must be a CSV"))
         ELSE IF file[1].size > MaxFileBytes
              THEN Finish(p, Rejected("File size must be less than 5MB"))
         ELSE IF Len(rows) > MaxImportRows
              THEN Finish(p, Rejected("Maximum 200 rows allowed per import"))
         ELSE IF AnyInvalid(validationResults) THEN Finish(p, RowErrors(validationResults))
         ELSE Goto(p, "imp_tx",
                   [loc[p] EXCEPT !.user = r.user,
                                  !.rows = [i \in 1..Len(validRows) |-> validRows[i].data]])
  /\ UNCHANGED <<store, nreq>>

\* The table after the loop's tx.buyer.create of every row.
BuyersImported(b, first, rows, owner, now) ==
  [i \in DOMAIN b \cup (first .. (first + Len(rows) - 1)) |->
     IF i \in DOMAIN b THEN b[i] ELSE NewRow(rows[i - first + 1], owner, now)]

\* The history after the loop's tx.buyerHistory.create of every row.
HistoryImported(h, first, rows, user, now) ==
  h \o [i \in 1..Len(rows) |-> HistoryEntry(first + i - 1, user, now, "imported", rows[i])]

\* The transaction: the loop over the rows, then the commit.  The writes of
\* the loop are the transaction's own until it commits, so a throw at any row
\* or at the commit leaves the same store.
ImportCommit(p) ==
  /\ pc[p] = "imp_tx"
  /\ LET rows == loc[p].rows
         now == IF rows = <<>> THEN clock ELSE clock + 1
     IN  \/ /\ Finish(p, Status(500))
            /\ buyers' = Rollback(buyers, BuyersImported(buyers, nextId, rows, loc[p].user, now))
            /\ UNCHANGED <<history, clock, nextId, log>>
         \/ /\ clock' = now
            /\ nextId' = nextId + Len(rows)
            /\ buyers' = BuyersImported(buyers, nextId, rows, loc[p].user, now)
            /\ history' = HistoryImported(history, nextId, rows, loc[p].user, now)
            /\ UNCHANGED log
            /\ Finish(p, [status |-> 200, body |-> Some([count |-> Len(rows)])])
  /\ UNCHANGED nreq

(***************************************************************************)
(* The requests the clients send.                                          *)
(***************************************************************************)
Merge(a, b) == [k \in DOMAIN a \cup DOMAIN b |-> IF k \in DOMAIN b THEN b[k] ELSE a[k]]

CreateBase ==
  [fullName |-> "Al", phone |-> "9876543210", city |-> "MOHALI", propertyType |-> "PLOT",
   purpose |-> "BUY", timeline |-> "EXPLORING", source |-> "CALL"]

CreateExtras ==
  { NoBody,
    [propertyType |-> "APARTMENT", bhk |-> "TWO", email |-> "", budgetMin |-> 0,
     budgetMax |-> 1, tags |-> "vip"],
    [propertyType |-> "VILLA"],
    [status |-> "QUALIFIED"],
    [email |-> "bad"] }

CreateBodies == {Merge(CreateBase, x) : x \in CreateExtras}

UpdateBodies ==
  { [fullName |-> "Bo"], [email |-> "a@x.io"], [tags |-> "urgent,family"],
    [propertyType |-> "PLOT"], [propertyType |-> "APARTMENT"],
    [fullName |-> "Bo", tags |-> "vip"], [notes |-> "mine", ownerId |-> "u2"],
    [email |-> "bad"], [budgetMin |-> 1], [budgetMax |-> 0] }

\* The bodies that are also sent with the version the client saw.
VersionedBodies == { [fullName |-> "Bo"], [tags |-> "vip"] }

\* The versions of record i a client may hold: its current one or an older one.
Versions(i) ==
  IF i \in DOMAIN buyers
  THEN {Some(t) : t \in buyers[i].createdAt .. buyers[i].updatedAt}
  ELSE {Some(SeedTime)}

WithVersion(body, v) == IF v = None THEN body ELSE Merge(body, [updatedAt |-> v[1]])

CsvBase ==
  [fullName |-> "Cy", email |-> "", phone |-> "9876543211", city |-> "MOHALI",
   propertyType |-> "VILLA", bhk |-> "THREE", purpose |-> "RENT", budgetMin |-> <<>>,
   budgetMax |-> <<"1">>, timeline |-> "EXPLORING", source |-> "REFERRAL", notes |-> "",
   tags |-> "family,urgent"]

CsvRows == {CsvBase, Merge(CsvBase, [phone |-> "123"])}

\* The columns of the file in the order of its header line.
CsvColumns ==
  <<"fullName", "email", "phone", "city", "propertyType", "bhk", "purpose", "budgetMin",
    "budgetMax", "timeline", "source", "notes", "tags">>

\* The text of a cell of a budget column is kept as its characters.
HeaderCell(k) ==
  CASE k = "budgetMin" -> <<"b", "u", "d", "g", "e", "t", "M", "i", "n">>
    [] k = "budgetMax" -> <<"b", "u", "d", "g", "e", "t", "M", "a", "x">>
    [] OTHER -> k

HeaderLine == [j \in 1..Len(CsvColumns) |-> HeaderCell(CsvColumns[j])]

\* The line of the file that carries the values of row.
LineOf(row) == [j \in 1..Len(CsvColumns) |-> row[CsvColumns[j]]]

\* The row a line stands for under the header line of the file.
NamedRow(line) ==
  [k \in {CsvColumns[j] : j \in 1..Len(line)} |->
     line[CHOOSE j \in 1..Len(line) : CsvColumns[j] = k]]

File(csv, size, lines) == Some([csv |-> csv, size |-> size, lines |-> lines])

ImportBatches == UNION {[1..n -> {LineOf(r) : r \in CsvRows}] : n \in 0..MaxRows}

\* Files of some data rows under the header line, and the file of no line.
SmallFiles == {File(TRUE, 1, <<HeaderLine>> \o b) : b \in ImportBatches} \cup {File(TRUE, 0, <<>>)}

\* Files at the limits of the handler: over and at the size limit, not a CSV,
\* and of one row less than, exactly and one row more than the row limit.
LimitFiles ==
  { File(TRUE, MaxFileBytes + 1, <<HeaderLine, LineOf(CsvBase)>>),
    File(TRUE, MaxFileBytes, <<HeaderLine, LineOf(CsvBase)>>),
    File(FALSE, 1, <<HeaderLine, LineOf(CsvBase)>>) }
  \cup {File(TRUE, 1, <<HeaderLine>> \o [i \in 1..n |-> LineOf(CsvBase)]) :
          n \in (MaxImportRows - 1) .. (MaxImportRows + 1)}

\* The files a client sends: the files at the limits go to a server that has
\* answered no request yet.
ImportFiles == {None} \cup SmallFiles \cup (IF nreq = 0 THEN LimitFiles ELSE {})

\* The rows the import of file would insert.
ImportInserts(file) ==
  IF file = None \/ ~file[1].csv \/ file[1].size > MaxFileBytes THEN 0
  ELSE LET rows == CsvParse(file[1].lines)
       IN  IF Len(rows) > MaxImportRows THEN 0
           ELSE IF AnyInvalid(ValidateAll(rows)) THEN 0
           ELSE Len(SelectSeq(ValidateAll(rows), LAMBDA result : result.success))

\* Rows that handlers in flight are yet to insert.
PendingRows(p) ==
  CASE pc[p] \in {"post", "post_hist"} -> 1
    [] pc[p] = "imp" -> ImportInserts(req[p].file)
    [] pc[p] = "imp_tx" -> Len(loc[p].rows)
    [] OTHER -> 0

RECURSIVE SumPending(_)
SumPending(ps) ==
  IF ps = {} THEN 0 ELSE LET p == CHOOSE q \in ps : TRUE IN PendingRows(p) + SumPending(ps \ {p})

\* The rows the store can still take within the model's bound.
Room == MaxBuyers - (nextId - 1) - SumPending(Procs)

\* The queries of the list and of the export.
Queries == {NoBody, [city |-> "MOHALI"], [search |-> "al"], [search |-> "KUM", status |-> "NEW"]}

\* The pages asked of the list: the first by default, and the first and the
\* second of pages of one row.
Pagings == {NoBody, [limit |-> <<"1">>], [page |-> <<"2">>, limit |-> <<"1">>]}

Request(kind, u, i, b, f) == [kind |-> kind, user |-> u, id |-> i, body |-> b, file |-> f]

Requests ==
  {Request("put", u, i, b, None) : u \in Users, i \in 1..MaxBuyers, b \in UpdateBodies}
  \cup UNION {{Request("put", u, i, WithVersion(b, v), None) :
                   u \in Users, b \in VersionedBodies, v \in Versions(i)} :
                i \in 1..MaxBuyers}
  \cup {Request("del", u, i, NoBody, None) : u \in Users, i \in 1..MaxBuyers}
  \cup {Request("get", u, i, NoBody, None) : u \in Users, i \in 1..MaxBuyers}
  \cup {Request("post", u, 0, b, None) : u \in {v \in Users : Room >= 1}, b \in CreateBodies}
  \cup {Request("imp", u, 0, NoBody, f) :
          u \in Users, f \in {x \in ImportFiles : ImportInserts(x) <= Room}}
  \cup {Request("export", DemoUser, 0, q, None) : q \in Queries}
  \cup {Request("list", DemoUser, 0, Merge(q, g), None) : q \in Queries, g \in Pagings}
  \cup {Request(k, NoUser, 0, NoBody, None) : k \in {"export", "list"}}
  \cup {Request(k, NoUser, 1, [fullName |-> "Bo"], None) : k \in {"put", "del", "get"}}
  \cup {Request("post", NoUser, 0, CreateBase, None) : k \in {v \in {1} : Room >= 1}}
  \cup {Request("imp", NoUser, 0, NoBody, File(TRUE, 1, <<HeaderLine, LineOf(CsvBase)>>))}

\* A request arrives at an idle handler.  An arrival touches nothing shared, so
\* it is taken right before the handler's first step: no other request waits.
\* The handlers are interchangeable: the arrival goes to the first idle one.
Recv(p) ==
  /\ pc[p] = "idle"
  /\ \A q \in Procs : q < p => pc[q] # "idle"
  /\ \A q \in Procs : req[q] = NoReq
  /\ nreq < MaxRequests
  /\ \E r \in Requests :
        /\ req' = [req EXCEPT ![p] = r]
        /\ pc' = [pc EXCEPT ![p] = r.kind]
  /\ nreq' = nreq + 1
  /\ resp' = NoResp
  /\ UNCHANGED <<store, loc>>

(***************************************************************************)
(* The store after prisma/seed: nothing, or a sample buyer with its        *)
(* history entry, owned by the demo user.                                  *)
(***************************************************************************)
SeedBuyers ==
  { [fullName |-> "Rajesh Kumar", email |-> "a@x.io", phone |-> "9876543210",
     city |-> "CHANDIGARH", propertyType |-> "APARTMENT", bhk |-> "TWO", purpose |-> "BUY",
     budgetMin |-> 1, budgetMax |-> 2, timeline |-> "ZERO_TO_THREE_MONTHS",
     source |-> "WEBSITE", status |-> "NEW", notes |-> "furnished",
     tags |-> "urgent,family"] }

Init ==
  /\ \/ /\ buyers = [i \in {} |-> 0] /\ history = <<>> /\ nextId = 1
     \/ \E s \in SeedBuyers :
          /\ buyers = [i \in {1} |-> NewRow(s, DemoUser, SeedTime)]
          /\ history = <<HistoryEntry(1, DemoUser, SeedTime, "created",
                                      Merge(s, [ownerId |-> DemoUser]))>>
          /\ nextId = 2
  /\ clock = SeedTime
  /\ log = {}
  /\ pc = [p \in Procs |-> "idle"]
  /\ req = [p \in Procs |-> NoReq]
  /\ loc = [p \in Procs |-> NoLoc]
  /\ resp = NoResp
  /\ nreq = 0

Next ==
  \E p \in Procs :
    \/ Recv(p)
    \/ PutCheck(p) \/ PutReadOld(p) \/ PutTxUpdate(p) \/ PutTxHistory(p)
    \/ PostCreate(p) \/ PostTxHistory(p)
    \/ DelCheck(p) \/ DelDo(p)
    \/ GetById(p) \/ List(p) \/ Export(p)
    \/ ImportCheck(p) \/ ImportCommit(p)

Spec == Init /\ [][Next]_vars

(***************************************************************************)
(* Validation alone: a payload is handed to a schema, which answers with   *)
(* its issues.                                                             *)
(***************************************************************************)
MaxBudget == 2

\* The budgets of the payloads: absent, or a number from -1 to MaxBudget.
Budgets == {None} \cup {Some(n) : n \in -1..MaxBudget}

Optional(k, v) == IF v = None THEN NoBody ELSE [j \in {k} |-> v[1]]

\* The payloads sent to the API: a payload valid in every other field, of any
\* property type, with or without bhk and budgets.
ApiPayloads ==
  {Merge(Merge(Merge(Merge(CreateBase, [propertyType |-> t]), Optional("bhk", h)),
               Optional("budgetMin", lo)), Optional("budgetMax", hi)) :
     t \in PropertyTypeSchema, h \in {None, Some("TWO")}, lo \in Budgets, hi \in Budgets}

DigitChar(n) == CHOOSE c \in {"0", "1", "2", "3", "4", "5", "6", "7", "8", "9"} : DigitValue(c) = n

RECURSIVE Digits(_)
Digits(n) == IF n < 10 THEN <<DigitChar(n)>> ELSE Digits(n \div 10) \o <<DigitChar(n % 10)>>

\* The text of a number in a cell.
NumberText(n) == IF n < 0 THEN <<"-">> \o Digits(-n) ELSE Digits(n)

\* The texts of a budget cell: empty, the numbers of Budgets, a text that is
\* no number, and a number followed by a letter.
BudgetTexts == {<<>>, <<"x">>, <<"1", "x">>} \cup {NumberText(n) : n \in -1..MaxBudget}

\* The texts of the tags cell, as their characters: empty, two tags with a
\* blank after the comma, and two tags around an empty piece.
TagTexts == {<<>>, <<"a", ",", " ", "b">>, <<"a", ",", ",", "b">>}

\* The budgets of a row: the key is absent, or the cell holds a text.
CsvBudgets == {None} \cup {Some(t) : t \in BudgetTexts}

\* The rows handed to validateCSVRow: as the payloads of the API, with the
\* budgets as text.
CsvPayloads ==
  {Merge(Merge(Merge(Merge([k \in DOMAIN CsvBase \ {"bhk", "budgetMin", "budgetMax"} |->
                              CsvBase[k]],
                           [propertyType |-> t, tags |-> g]),
                     Optional("bhk", h)),
               Optional("budgetMin", lo)), Optional("budgetMax", hi)) :
     t \in PropertyTypeSchema, h \in {None, Some("TWO")}, lo \in CsvBudgets, hi \in CsvBudgets,
     g \in TagTexts}

\* A value of JavaScript that is a string, and one that is an array.
JsString(chars) == [string |-> chars]
JsArray(items) == [array |-> items]

\* The tags of the data of a row: `z.string().optional().default('')` gives
\* the text of the cell.
CsvTags(data) == JsString(data["tags"])

\* `CreateBuyerSchema.parse(body)`
ParseCreate(p) ==
  /\ pc[p] = "create"
  /\ pc' = [pc EXCEPT ![p] = "idle"]
  /\ resp' = [to |-> p, at |-> "create", status |-> 0,
              body |-> Some([success |-> CreateBuyerSchema(req[p].body) # None,
                             data |-> IF CreateBuyerSchema(req[p].body) # None
                                      THEN CreateBuyerSchema(req[p].body)[1] ELSE NoBody,
                             issues |-> BuyerIssues(CreateKeys, RequiredKeys, TagsDefault,
                                                    req[p].body)])]
  /\ UNCHANGED <<store, req, loc, nreq>>

\* `validateCSVRow(row, 0)`
ParseCsvRow(p) ==
  /\ pc[p] = "csv"
  /\ pc' = [pc EXCEPT ![p] = "idle"]
  /\ resp' = [to |-> p, at |-> "csv", status |-> 0,
              body |-> Some([success |-> validateCSVRow(req[p].body, 0).success,
                             data |-> validateCSVRow(req[p].body, 0).data,
                             tags |-> IF validateCSVRow(req[p].body, 0).success
                                      THEN CsvTags(validateCSVRow(req[p].body, 0).data)
                                      ELSE JsString(<<>>),
                             issues |-> validateCSVRow(req[p].body, 0).error.issues])]
  /\ UNCHANGED <<store, req, loc, nreq>>

ValInit ==
  /\ buyers = [i \in {} |-> 0] /\ history = <<>> /\ nextId = 1
  /\ clock = SeedTime
  /\ log = {}
  /\ \/ /\ pc = [p \in Procs |-> IF p = 1 THEN "create" ELSE "idle"]
        /\ \E b \in ApiPayloads :
             req = [p \in Procs |-> IF p = 1 THEN Request("post", DemoUser, 0, b, None)
                                    ELSE NoReq]
     \/ /\ pc = [p \in Procs |-> IF p = 1 THEN "csv" ELSE "idle"]
        /\ \E b \in CsvPayloads :
             req = [p \in Procs |-> IF p = 1 THEN Request("imp", DemoUser, 0, b, None)
                                    ELSE NoReq]
  /\ loc = [p \in Procs |-> NoLoc]
  /\ resp = NoResp
  /\ nreq = 0

ValNext == \E p \in Procs : ParseCreate(p) \/ ParseCsvRow(p)

ValSpec == ValInit /\ [][ValNext]_vars

(***************************************************************************)
(* Properties.                                                             *)
(***************************************************************************)
\* The buyer table and the history table are as before the step.
StoreSame == buyers' = buyers /\ history' = history

\* The fields of the record a payload supplies.
Supplied(body) == [k \in DOMAIN body \cap BuyerKeys |-> body[k]]

\* The version a request carries.
Carried(r) == IF "updatedAt" \in DOMAIN r.body THEN Some(r.body["updatedAt"]) ELSE None

\* Handler p is about to process an update of an existing record by an
\* authenticated user whose payload passes validation.
PutAdmitted(p) ==
  /\ pc[p] = "put"
  /\ Authenticated(req[p])
  /\ UpdateBuyerSchema(req[p].body) # None
  /\ Exists(req[p].id)

OwnerPut(p) == PutAdmitted(p) /\ buyers[req[p].id].ownerId = req[p].user

\* Handler p returns status s from position l in this step.
Returns(p, l, s) == pc[p] = l /\ pc'[p] = "idle" /\ resp'.to = p /\ resp'.status = s

\* Handler p commits its update in this step.
CommitsUpdate(p) == Returns(p, "put_tx", 200) \/ Returns(p, "put_hist", 200)

\* C1: an update by the owner that carries an expected version different from
\* the stored record's updatedAt is answered 409, and the buyer table and the
\* history table do not change.
C1_StaleVersionRejected ==
  [][\A p \in Procs :
       ( /\ OwnerPut(p)
         /\ Carried(req[p]) # None
         /\ Carried(req[p])[1] # buyers[req[p].id].updatedAt
         /\ pc'[p] # "put" )
       => (Returns(p, "put", 409) /\ StoreSame)]_vars

\* C2: once an update that carried version V (the record's updatedAt when it
\* was checked) has committed, a later update by the owner that carries the
\* same V, processed with no other handler running, is answered 409 and
\* changes nothing: the record keeps the first update's values and its single
\* new history entry.
C2_SecondOfSameVersionRejected ==
  [][\A p \in Procs :
       ( /\ OwnerPut(p)
         /\ \A q \in Procs \ {p} : pc[q] = "idle"
         /\ Carried(req[p]) # None
         /\ \E e \in log : /\ e.id = req[p].id
                           /\ e.expected = Carried(req[p])
                           /\ e.seen = e.expected[1]
         /\ pc'[p] # "put" )
       => (Returns(p, "put", 409) /\ StoreSame)]_vars

\* C3: the version check and the write are one atomic step: no two committed
\* updates of a record both carried the version that both saw stored at their
\* check.
C3_CheckAndWriteAtomic ==
  \A e1, e2 \in log :
    ( /\ e1.id = e2.id /\ e1.at # e2.at
      /\ e1.expected # None /\ e1.expected = e2.expected
      /\ e1.seen = e1.expected[1] /\ e2.seen = e1.seen )
    => FALSE

\* C4: an update by the owner with a valid payload and no expected version
\* goes on to its write whatever the stored updatedAt is, is never answered
\* 409, and when its write commits every field the payload supplies holds the
\* supplied value.
C4_NoVersionProceeds ==
  [][\A p \in Procs :
       /\ (OwnerPut(p) /\ Carried(req[p]) = None /\ pc'[p] # "put")
            => ( /\ pc'[p] = "put_old"
                 /\ loc'[p].data = Supplied(req[p].body)
                 /\ loc'[p].expected = None
                 /\ StoreSame )
       /\ ( /\ pc[p] \in {"put_old", "put_tx", "put_hist"}
            /\ loc[p].expected = None
            /\ pc'[p] = "idle" )
            => resp'.status # 409
       /\ (CommitsUpdate(p) /\ loc[p].expected = None)
            => \A k \in DOMAIN loc[p].data :
                 buyers'[loc[p].id].fields[k] = loc[p].data[k]]_vars

\* C4 witness: an update without a version committed on a record that had
\* been updated before, and the record holds what it supplied.
C4_Witness ==
  \E e \in log :
    /\ e.expected = None /\ e.seen > SeedTime /\ DOMAIN e.data # {}
    /\ e.id \in DOMAIN buyers /\ buyers[e.id].updatedAt = e.at
    /\ \A k \in DOMAIN e.data : buyers[e.id].fields[k] = e.data[k]

\* C5: an update of an existing record by a user who is not its owner, with a
\* payload that passes validation, is answered 403 at the ownership check,
\* whether or not it carries a version and whatever that version is, and the
\* buyer table and the history table do not change.
C5_NonOwnerUpdateForbidden ==
  [][\A p \in Procs :
       (PutAdmitted(p) /\ buyers[req[p].id].ownerId # req[p].user /\ pc'[p] # "put")
       => (Returns(p, "put", 403) /\ StoreSame)]_vars

\* C5 witness: an update was answered 403 and the record exists.
C5_Witness == resp.at = "put" /\ resp.status = 403 /\ DOMAIN buyers # {}

\* C6: a delete of an existing record by a user who is not its owner is
\* answered 403, and the record and its history entries are as before.
C6_NonOwnerDeleteForbidden ==
  [][\A p \in Procs :
       ( /\ pc[p] = "del" /\ Authenticated(req[p]) /\ Exists(req[p].id)
         /\ buyers[req[p].id].ownerId # req[p].user
         /\ pc'[p] # "del" )
       => (Returns(p, "del", 403) /\ StoreSame)]_vars

\* C6 witness: a delete was answered 403 and the record exists with history.
C6_Witness ==
  /\ resp.at = "del" /\ resp.status = 403
  /\ \E id \in DOMAIN buyers : Len(HistoryOf(history, id)) >= 1

\* C7: every existing record has one history entry for its creation plus one
\* for each committed update of it whose computed diff was not empty.
C7_HistoryCount ==
  \A id \in DOMAIN buyers :
    Len(HistoryOf(history, id))
      = 1 + Cardinality({e \in log : e.id = id /\ DOMAIN e.diff # {}})

\* C7 witness: a record with a committed update that changed it and a
\* committed update that changed nothing.
C7_Witness ==
  \E id \in DOMAIN buyers :
    /\ \E e \in log : e.id = id /\ DOMAIN e.diff # {}
    /\ \E e \in log : e.id = id /\ DOMAIN e.diff = {}
    /\ Len(HistoryOf(history, id)) = 2

\* C8: a committed update whose every supplied field equals the value the
\* handler read from the record adds no history entry.
C8_NoOpAddsNoHistory ==
  [][\A p \in Procs :
       ( /\ CommitsUpdate(p)
         /\ loc[p].old # None
         /\ \A k \in DOMAIN loc[p].data :
              /\ k \in DOMAIN loc[p].old[1].fields
              /\ loc[p].old[1].fields[k] = loc[p].data[k] )
       => history' = history]_vars

\* C8 witness: the same update of tags, email or budget to the stored value
\* committed twice, and the record still has its one history entry.
C8_Witness ==
  \E e1, e2 \in log :
    /\ e1.id = e2.id /\ e1.at < e2.at /\ e1.data = e2.data
    /\ DOMAIN e1.data \cap {"tags", "email", "budgetMin"} # {}
    /\ DOMAIN e1.diff = {} /\ DOMAIN e2.diff = {}
    /\ e1.id \in DOMAIN buyers
    /\ \A k \in DOMAIN e1.data : buyers[e1.id].fields[k] = e1.data[k]
    /\ Len(HistoryOf(history, e1.id)) = 1

\* What reading buyer id returns right after handler p's create committed
\* agrees with the payload on the fields in keys, and the record's history is
\* one "created" entry with those values.
CreateRoundTrip(p, keys) ==
  LET id == nextId
      body == loc[p].body
      found == FindBuyer(buyers', history', id)
  IN  /\ found # None
      /\ \A k \in DOMAIN body \cap keys :
           /\ k \in DOMAIN found[1].buyer.fields
           /\ found[1].buyer.fields[k] = body[k]
      /\ Len(found[1].history) = 1
      /\ found[1].history[1].diff.action = "created"
      /\ \A k \in DOMAIN body \cap keys :
           /\ k \in DOMAIN found[1].history[1].diff.fields
           /\ found[1].history[1].diff.fields[k] = body[k]

\* The read handler returns the stored record with its newest history entries.
ReadReturnsStored ==
  \A p \in Procs :
    (pc[p] = "get" /\ Authenticated(req[p]) /\ Exists(req[p].id) /\ pc'[p] # "get")
    => /\ Returns(p, "get", 200)
       /\ resp'.body # None
       /\ resp'.body[1].buyer = buyers[req[p].id]
       /\ resp'.body[1].history = Take(Reverse(HistoryOf(history, req[p].id)), HistoryTake)

WholeWrite ==
  \/ StoreSame
  \/ \E p \in Procs :
       \/ /\ Returns(p, "post_hist", 201)
          /\ DOMAIN buyers' = DOMAIN buyers \cup {nextId} /\ nextId \notin DOMAIN buyers
          /\ \A i \in DOMAIN buyers : buyers'[i] = buyers[i]
          /\ Len(history') = Len(history) + 1
          /\ SubSeq(history', 1, Len(history)) = history
          /\ history'[Len(history')].buyerId = nextId
       \/ /\ CommitsUpdate(p)
          /\ DOMAIN buyers' = DOMAIN buyers
          /\ \A i \in DOMAIN buyers \ {loc[p].id} : buyers'[i] = buyers[i]
          /\ \/ /\ Len(history') = Len(history) + 1
                /\ SubSeq(history', 1, Len(history)) = history
                /\ history'[Len(history')].buyerId = loc[p].id
             \/ /\ history' = history
                /\ Diff(loc[p].old, loc[p].data) = NoBody
       \/ Returns(p, "imp_tx", 200)
       \/ Returns(p, "del_do", 200)

\* C10: a create or update that fails at any step leaves the buyer table and
\* the history table as they were; every step writes a record together with
\* its history entry or writes nothing; and in every state each record has its
\* creation entry and each history entry has its record.
C10_AllOrNothing ==
  /\ [](/\ \A id \in DOMAIN buyers : Len(HistoryOf(history, id)) >= 1
        /\ \A i \in 1..Len(history) : history[i].buyerId \in DOMAIN buyers)
  /\ [][ /\ \A p \in Procs :
              ( /\ pc[p] \in {"post", "post_hist", "put", "put_old", "put_tx", "put_hist"}
                /\ pc'[p] = "idle"
                /\ resp'.status \notin {200, 201} )
              => StoreSame
         /\ WholeWrite ]_vars

\* C10 witness: a create or update failed at its history write, after its
\* record write, and the store holds no record without history.
C10_Witness ==
  /\ resp.at \in {"put_hist", "post_hist"} /\ resp.status = 500
  /\ \A id \in DOMAIN buyers : Len(HistoryOf(history, id)) >= 1

(***************************************************************************)
(* The import of a file.                                                   *)
(***************************************************************************)
\* The lines of a file under its header line.
DataLines(file) == IF file[1].lines = <<>> THEN <<>> ELSE Tail(file[1].lines)

\* The line holds a row that passes validation under the file's header line.
LineValid(line) == CSVBuyerSchema(NamedRow(line)) # None

\* Handler p is about to process the import, by an authenticated user, of a
\* CSV file within the size limit.
ImportAdmitted(p) ==
  /\ pc[p] = "imp"
  /\ Authenticated(req[p])
  /\ req[p].file # None
  /\ req[p].file[1].csv
  /\ req[p].file[1].size <= MaxFileBytes

\* The response carries row-level errors.
HasRowErrors(r) == r.body # None /\ "errors" \in DOMAIN r.body[1]

\* C11: the import of a file with at least one invalid data row is rejected,
\* and neither the buyer table nor the history table changes, whatever the
\* number and the position of the valid rows of the file.
C11_InvalidRowRejectsAll ==
  [][\A p \in Procs :
       ( /\ ImportAdmitted(p)
         /\ \E i \in 1..Len(DataLines(req[p].file)) : ~LineValid(DataLines(req[p].file)[i])
         /\ pc'[p] # "imp" )
       => /\ Returns(p, "imp", 400)
          /\ StoreSame]_vars

\* C11 witness: a file of more than one row was rejected for its invalid rows
\* while the store, which held a record, kept it and its one history entry.
C11_Witness ==
  /\ resp.at = "imp" /\ resp.status = 400 /\ HasRowErrors(resp)
  /\ resp.body[1].invalidCount >= 2
  /\ DOMAIN buyers = {1} /\ Len(history) = 1

\* The data rows of the file are within the row limit and all valid.
AllRowsValid(file) ==
  /\ Len(DataLines(file)) <= MaxImportRows
  /\ \A i \in 1..Len(DataLines(file)) : LineValid(DataLines(file)[i])

\* The step adds to the store n records owned by user, each with one history
\* entry "imported" by user, and nothing else.
Imports(n, user) ==
  /\ DOMAIN buyers' = DOMAIN buyers \cup (nextId .. (nextId + n - 1))
  /\ \A i \in DOMAIN buyers : buyers'[i] = buyers[i]
  /\ \A i \in nextId .. (nextId + n - 1) : buyers'[i].ownerId = user
  /\ Len(history') = Len(history) + n
  /\ SubSeq(history', 1, Len(history)) = history
  /\ \A j \in 1..n :
       /\ history'[Len(history) + j].diff.action = "imported"
       /\ history'[Len(history) + j].changedBy = user
       /\ history'[Len(history) + j].buyerId = nextId + j - 1

\* C12: the import of a file whose n data rows are all valid goes on to the
\* transaction with these n rows, and the transaction either adds exactly n
\* records owned by the importing user, each with one history entry
\* "imported" by that user, or adds nothing.
C12_AllValidImported ==
  [][\A p \in Procs :
       /\ ( /\ ImportAdmitted(p)
            /\ AllRowsValid(req[p].file)
            /\ pc'[p] # "imp" )
          => /\ pc'[p] = "imp_tx"
             /\ Len(loc'[p].rows) = Len(DataLines(req[p].file))
       /\ (pc[p] = "imp_tx" /\ pc'[p] = "idle")
          => \/ resp'.status = 200 /\ Imports(Len(loc[p].rows), loc[p].user)
             \/ resp'.status # 200 /\ StoreSame]_vars

\* Handler p is about to process the import, by an authenticated user, of a
\* CSV file.
ImportOfCsv(p) ==
  /\ pc[p] = "imp" /\ pc'[p] # "imp"
  /\ Authenticated(req[p])
  /\ req[p].file # None
  /\ req[p].file[1].csv

\* The response reports an input over a limit.
LimitError(r) ==
  /\ r.status = 400
  /\ r.body \in {Some([error |-> "File size must be less than 5MB"]),
                 Some([error |-> "Maximum 200 rows allowed per import"])}

\* C13: the import of a file of more than 5 MB or of more than 200 data rows
\* is answered with an input-limit error that carries no row-level errors, and
\* the store does not change; the import of a file of at most 5 MB and at most
\* 200 data rows is not answered with an input-limit error.
C13_InputLimits ==
  [][\A p \in Procs :
       ImportOfCsv(p)
       => IF \/ req[p].file[1].size > MaxFileBytes
             \/ Len(DataLines(req[p].file)) > MaxImportRows
          THEN LimitError(resp') /\ ~HasRowErrors(resp') /\ pc'[p] = "idle" /\ StoreSame
          ELSE ~LimitError(resp')]_vars

\* The data rows of the file that fail validation, by 0-based index.
InvalidIndexes(file) ==
  {i \in 0..(Len(DataLines(file)) - 1) : ~LineValid(DataLines(file)[i + 1])}

\* Handler p rejects in this step the rows of a file within the limits.
RejectsRows(p) ==
  /\ ImportOfCsv(p)
  /\ req[p].file[1].size <= MaxFileBytes
  /\ Len(DataLines(req[p].file)) <= MaxImportRows
  /\ HasRowErrors(resp')

\* C14: the response that rejects a batch of n data rows holds exactly one
\* error entry for each invalid row and none for a valid row, and its
\* validCount and invalidCount add up to n.
C14_EveryRowValidated ==
  [][\A p \in Procs :
       RejectsRows(p)
       => LET file == req[p].file
              n == Len(DataLines(file))
              errors == resp'.body[1].errors
          IN  /\ Len(errors) = Cardinality(InvalidIndexes(file))
              /\ \A i \in 0..(n - 1) :
                   Cardinality({j \in 1..Len(errors) : errors[j].row = i + 1})
                     = IF i \in InvalidIndexes(file) THEN 1 ELSE 0
              /\ resp'.body[1].invalidCount = Cardinality(InvalidIndexes(file))
              /\ resp'.body[1].validCount + resp'.body[1].invalidCount = n]_vars

\* The issues of the row of a line under the header line.
LineIssues(line) == CsvIssues(NamedRow(line))

\* C15: in the response that rejects a batch, the error of the invalid data
\* row at 0-based index i is tagged with row number i + 1 and holds, for each
\* offending field of the row, the field and its message.
C15_RowNumberAndFields ==
  [][\A p \in Procs :
       RejectsRows(p)
       => \A i \in InvalidIndexes(req[p].file) :
            \E j \in 1..Len(resp'.body[1].errors) :
              resp'.body[1].errors[j]
                = RowError(i, LineIssues(DataLines(req[p].file)[i + 1]))]_vars

(***************************************************************************)
(* The cross-field rules.                                                  *)
(***************************************************************************)
\* The payload a schema has answered, and its answer.
Payload == req[resp.to].body
Answer == resp.body[1]

\* A schema has answered a payload.
Answered == resp.at \in {"create", "csv"}

\* The budget a payload gives under key k: a number, or None when the key is
\* absent or its cell holds no number.
PayloadBudget(k) ==
  IF k \notin DOMAIN Payload THEN None
  ELSE IF resp.at = "csv" THEN BudgetTransform(Payload[k])
  ELSE Some(Payload[k])

BothBudgets == PayloadBudget("budgetMin") # None /\ PayloadBudget("budgetMax") # None

\* The budgets of the payload are not negative and, when both are present,
\* the maximum is not below the minimum.
BudgetsConsistent ==
  /\ \A k \in {"budgetMin", "budgetMax"} : PayloadBudget(k) # None => PayloadBudget(k)[1] >= 0
  /\ BothBudgets => PayloadBudget("budgetMax")[1] >= PayloadBudget("budgetMin")[1]

Paths(issues) == {i.path : i \in issues}

NeedsBhk(id) == buyers[id].fields["propertyType"] \in {"APARTMENT", "VILLA"}
HasBhk(id) == "bhk" \in DOMAIN buyers[id].fields

\* C17 as stated: in every state every stored record holds a bhk exactly when
\* its propertyType is APARTMENT or VILLA.
C17_BhkIffApartmentOrVilla == \A id \in DOMAIN buyers : HasBhk(id) <=> NeedsBhk(id)

\* C17, amended: in every state every stored record whose propertyType is
\* APARTMENT or VILLA holds a bhk.
C17_ApartmentOrVillaHasBhk == \A id \in DOMAIN buyers : NeedsBhk(id) => HasBhk(id)

\* C17 witness: a create has stored an APARTMENT, with its bhk, and answered.
C17_Witness ==
  /\ resp.at = "post_hist" /\ resp.status = 201
  /\ \E id \in DOMAIN buyers :
       /\ buyers[id].createdAt > SeedTime
       /\ buyers[id].fields["propertyType"] = "APARTMENT"
       /\ HasBhk(id)

\* C18: a payload whose budgetMin and budgetMax are both present, as any
\* numbers from zero up, fails validation with an error on the path budgetMax
\* when budgetMax is below budgetMin, and raises no error of the budget rule
\* when budgetMax is at least budgetMin.
C18_BudgetOrder ==
  (Answered /\ BothBudgets
     /\ PayloadBudget("budgetMin")[1] >= 0 /\ PayloadBudget("budgetMax")[1] >= 0)
  => IF PayloadBudget("budgetMax")[1] < PayloadBudget("budgetMin")[1]
     THEN ~Answer.success /\ "budgetMax" \in Paths(Answer.issues)
     ELSE "budgetMax" \notin Paths(Answer.issues)

\* The budget stored under key k of record id, or None.
StoredBudget(id, k) ==
  IF k \in DOMAIN buyers[id].fields THEN Some(buyers[id].fields[k]) ELSE None

\* C19: in every state every budget of a stored record is a number from zero
\* up, and a record that holds both budgets has its budgetMax at least its
\* budgetMin.
C19_StoredBudgetsOrdered ==
  \A id \in DOMAIN buyers :
    /\ \A k \in {"budgetMin", "budgetMax"} :
         StoredBudget(id, k) # None => StoredBudget(id, k)[1] \in Nat
    /\ (StoredBudget(id, "budgetMin") # None /\ StoredBudget(id, "budgetMax") # None)
       => StoredBudget(id, "budgetMax")[1] >= StoredBudget(id, "budgetMin")[1]

\* The record holds both budgets with budgetMax below budgetMin.
BudgetsReversed(fields) ==
  /\ "budgetMin" \in DOMAIN fields /\ "budgetMax" \in DOMAIN fields
  /\ fields["budgetMax"] < fields["budgetMin"]

\* The record satisfies the bhk rule and the budget rule.
CrossFieldRules(fields) == BhkRefine(fields) /\ ~BudgetsReversed(fields)

\* Handler p is about to process an update, by its owner, of an existing
\* record, whose supplied fields are each valid.
OwnerPutOfValidFields(p) ==
  /\ pc[p] = "put" /\ pc'[p] # "put"
  /\ Authenticated(req[p])
  /\ Exists(req[p].id)
  /\ buyers[req[p].id].ownerId = req[p].user
  /\ ShapeValid(BuyerKeys, {}, req[p].body)

\* C20: an update whose supplied fields are each valid passes validation
\* exactly when the stored record overlaid with the supplied fields satisfies
\* the bhk rule and the budget rule.
C20_MergedRecordValidated ==
  [][\A p \in Procs :
       OwnerPutOfValidFields(p)
       => ( resp'.status \notin {400, 500}
            <=> CrossFieldRules(Merge(buyers[req[p].id].fields, Supplied(req[p].body))) )]_vars

(***************************************************************************)
(* The values of a CSV row.                                                *)
(***************************************************************************)
\* The text is the numeral of a number from zero up.
IsNumeral(text) == text # <<>> /\ \A i \in 1..Len(text) : IsDigit(text[i])

\* C21: in the validation of a CSV row, a budget whose text is empty or
\* absent is absent from the data of a valid row, a budget whose text is a
\* numeral is that number, and a budget whose text is not empty and is not the
\* numeral of a number from zero up makes the row invalid.
C21_BudgetText ==
  resp.at = "csv"
  => \A k \in {"budgetMin", "budgetMax"} :
       IF k \notin DOMAIN Payload \/ Payload[k] = <<>>
       THEN Answer.success => k \notin DOMAIN Answer.data
       ELSE IF IsNumeral(Payload[k])
       THEN Answer.success => Answer.data[k] = DigitsValue(Payload[k], 0)
       ELSE ~Answer.success

\* The pieces of a text between its commas, cur being the piece begun.
RECURSIVE Pieces(_, _)
Pieces(text, cur) ==
  IF text = <<>> THEN <<cur>>
  ELSE IF Head(text) = "," THEN <<cur>> \o Pieces(Tail(text), <<>>)
  ELSE Pieces(Tail(text), cur \o <<Head(text)>>)

RECURSIVE TrimLeft(_)
TrimLeft(t) == IF t # <<>> /\ Head(t) = " " THEN TrimLeft(Tail(t)) ELSE t

RECURSIVE TrimRight(_)
TrimRight(t) ==
  IF t # <<>> /\ t[Len(t)] = " " THEN TrimRight(SubSeq(t, 1, Len(t) - 1)) ELSE t

\* The list of the tags of a text: its pieces, trimmed, the empty ones dropped.
TagList(text) ==
  SelectSeq([i \in 1..Len(Pieces(text, <<>>)) |-> TrimRight(TrimLeft(Pieces(text, <<>>)[i]))],
            LAMBDA t : t # <<>>)

\* C22: the validation of a valid CSV row gives as its tags the list of the
\* tags of the text of the cell, in their order: split on commas, trimmed,
\* without the empty pieces.
C22_TagsSplit ==
  (resp.at = "csv" /\ Answer.success) => Answer.tags = JsArray(TagList(Payload["tags"]))

(***************************************************************************)
(* The history.                                                            *)
(***************************************************************************)
\* C23: in every state the buyer of every history entry is a stored record.
C23_NoOrphanHistory == \A i \in 1..Len(history) : Exists(history[i].buyerId)

\* C23 witness: a delete has removed a record that had been updated, and no
\* entry of the history is left of it.
C23_Witness ==
  /\ resp.at = "del_do" /\ resp.status = 200
  /\ clock > SeedTime
  /\ ~Exists(1)
  /\ \A i \in 1..Len(history) : history[i].buyerId # 1

\* C24: a step either leaves every history entry as it was and at most adds
\* entries after them, or is the deletion of a buyer, which removes the
\* entries of that buyer and leaves the others as they were.
C24_AppendOnly ==
  [][ \/ /\ Len(history') >= Len(history)
         /\ SubSeq(history', 1, Len(history)) = history
      \/ \E p \in Procs :
           /\ Returns(p, "del_do", 200)
           /\ ~Exists(loc[p].id)'
           /\ history' = SelectSeq(history, LAMBDA e : e.buyerId # loc[p].id) ]_vars

\* C24 witness: an update has added its entry after the entry of the record's
\* creation, which is as it was written.
C24_Witness ==
  /\ resp.at = "put_hist" /\ resp.status = 200
  /\ Len(history) >= 2
  /\ history[1].diff.action = "created" /\ history[1].changedAt = SeedTime
  /\ history[Len(history)].diff.action = "updated"

\* The keys of data whose value differs from the value row holds.
Changed(row, data) == {k \in DOMAIN data : Column(row, k) # Some(data[k])}

\* Handler p commits in this step an update that writes a history entry.
WritesUpdateEntry(p) == CommitsUpdate(p) /\ Len(history') = Len(history) + 1

\* C25: the history entry a committed update writes has the action "updated"
\* and holds exactly the supplied fields whose value differs from the value
\* the record held right before the update, each with that value as old and
\* the value the record holds after the update as new.
C25_DiffOfStoredValues ==
  [][\A p \in Procs :
       WritesUpdateEntry(p)
       => LET id == loc[p].id
              entry == history'[Len(history')]
          IN  /\ entry.buyerId = id
              /\ entry.diff.action = "updated"
              /\ DOMAIN entry.diff.fields = Changed(buyers[id], loc[p].data)
              /\ \A k \in DOMAIN entry.diff.fields :
                   /\ entry.diff.fields[k].old = Column(buyers[id], k)
                   /\ Some(entry.diff.fields[k].new) = Column(buyers'[id], k)]_vars

\* C29: under every interleaving of the handlers, each old value of the
\* history entry a committed update writes is the value its write overwrote:
\* the value the record held when the update was applied to it.
C29_OldIsOverwrittenValue ==
  [][\A p \in Procs :
       WritesUpdateEntry(p)
       => \A k \in DOMAIN history'[Len(history')].diff.fields :
            history'[Len(history')].diff.fields[k].old = Column(buyers[loc[p].id], k)]_vars

\* The rows of the store that satisfy every predicate of the query.
Matching(query) == {i \in DOMAIN buyers : Where(query, buyers[i])}

\* The rows of a sequence of ids.
Range(f) == {f[i] : i \in 1..Len(f)}

\* The list's pages of one row each, one after the other, from a listing.
AllPages(found) == [i \in 1..Len(found) |-> Page(found, i - 1, 1)[1]]

\* C26: the export of an authenticated user answers with exactly the records
\* that satisfy every predicate of its query (search as a case-insensitive
\* substring of fullName, email or phone; city, propertyType, status and
\* timeline by equality), latest updatedAt first: the records the pages of
\* the list give for the same query, one page after the other.
C26_ExportIsFilteredList ==
  [][\A p \in Procs :
       (pc[p] = "export" /\ Authenticated(req[p]) /\ pc'[p] = "idle")
       => /\ resp'.status = 200
          /\ resp'.body # None
          /\ Range(resp'.body[1].buyers) = Matching(req[p].body)
          /\ \E found \in FindMany(buyers, req[p].body) :
               resp'.body[1].buyers = AllPages(found)
          /\ \A i, j \in 1..Len(resp'.body[1].buyers) :
               i < j => buyers[resp'.body[1].buyers[i]].updatedAt
                          >= buyers[resp'.body[1].buyers[j]].updatedAt]_vars

\* The status that reports invalid input, and the one that reports a failed
\* write ('Failed to create buyer', 'Failed to update buyer').
InvalidInput == 400
WriteFailed == 500

\* Handler p is about to parse a create or an update payload that its schema
\* does not accept.
ParsesInvalid(p) ==
  /\ Authenticated(req[p])
  /\ \/ pc[p] = "post" /\ CreateBuyerSchema(req[p].body) = None
     \/ pc[p] = "put" /\ UpdateBuyerSchema(req[p].body) = None

\* C27: a create or an update whose payload fails validation is answered
\* with the status of a validation error, never with the status of a failed
\* write, and the buyer table and the history table do not change.
C27_InvalidPayloadReported ==
  [][\A p \in Procs :
       (ParsesInvalid(p) /\ pc'[p] # pc[p])
       => /\ pc'[p] = "idle"
          /\ resp'.to = p
          /\ resp'.status = InvalidInput
          /\ resp'.status # WriteFailed
          /\ StoreSame]_vars

\* The part of C27 that holds: the payload that fails validation is not
\* written.
InvalidPayloadNotWritten ==
  [][\A p \in Procs : (ParsesInvalid(p) /\ pc'[p] # pc[p]) => (pc'[p] = "idle" /\ StoreSame)]_vars

\* C28: the ownerId of a record never changes while the record exists: no
\* step, and so no update payload, whether or not it carries an ownerId,
\* gives a stored record another owner.
C28_OwnerNeverChanges ==
  [][\A i \in DOMAIN buyers \cap DOMAIN buyers' : buyers'[i].ownerId = buyers[i].ownerId]_vars

\* An update whose payload named another owner is committed, and the record
\* is still its creator's.
C28_Witness ==
  /\ resp.at = "put_hist" /\ resp.status = 200
  /\ Exists(1)
  /\ buyers[1].createdAt = SeedTime /\ buyers[1].updatedAt > SeedTime
  /\ buyers[1].fields["notes"] = "mine"
  /\ buyers[1].ownerId = DemoUser

\* The operations that write: create, update, delete and import.
WritingKinds == {"post", "put", "del", "imp"}

\* C30: a create, update, delete or import request that carries no valid
\* authenticated identity is answered at its handler's first step and
\* changes nothing: the buyer table, the history table and the counters stay
\* as they are.
C30_AnonymousChangesNothing ==
  [][\A p \in Procs :
       (pc[p] \in WritingKinds /\ req[p].user \notin Users /\ pc'[p] # pc[p])
       => /\ pc'[p] = "idle"
          /\ resp'.to = p /\ resp'.status \notin {200, 201}
          /\ store' = store]_vars

\* A delete of the seeded record by a request without identity is answered
\* 500 by the handler's first step (where only the missing identity gives
\* 500), and the record and its history are as seeded.
C30_Witness ==
  /\ resp.at = "del" /\ resp.status = 500
  /\ Exists(1) /\ buyers[1].updatedAt = SeedTime
  /\ Len(history) = 1 /\ history[1].buyerId = 1

====
